---- MODULE Spec2Model ----
(***************************************************************************)
(* Model of the two scripts of rechiseled-buildersdelight:                 *)
(*   scripts/bundle.py    the archive bundler and its ignore matcher       *)
(*   scripts/generate.py  the chiseling-recipe generator                   *)
(* A string is a sequence of one-character strings, a path below the       *)
(* bundled root is a sequence of segments (each a string), POSIX           *)
(* separators (os.sep = "/").                                              *)
(***************************************************************************)
EXTENDS Integers, Sequences, FiniteSets, TLC

VARIABLES
    mode,            \* which script / function this behaviour runs
    pc,              \* position of the running function
    path,            \* should_ignore: the candidate path, as segments below base_path
    patterns,        \* the ignore list (bundle_files line 43, should_ignore argument)
    result,          \* should_ignore: the returned boolean ("none" before the call)
    packignore,      \* the ignore-file: whether it exists, and its lines
    tree,            \* the set of files below source_dir, each a sequence of segments
    output_filename, \* os.path.basename(output_zip)
    walk,            \* os.walk: stack of directories still to visit
    files,           \* files of the directory being visited, not yet handled
    archive,         \* the zip archive: set of arcnames written
    gh_files,        \* generate.py: the list returned by get_github_files
    idx,             \* generate.py main: index of the file of the loop
    attempted,       \* generate.py main: names handed to process_chisel_file, in order
    logged,          \* generate.py main: names whose failure was caught and logged
    out_dir          \* generate.py: file names present in the output directory

vars == <<mode, pc, path, patterns, result, packignore, tree, output_filename,
          walk, files, archive, gh_files, idx, attempted, logged, out_dir>>

(***************************************************************************)
(* Strings                                                                 *)
(***************************************************************************)
SEP == "/"

\* str.endswith
EndsWith(s, suffix) ==
    /\ Len(s) >= Len(suffix)
    /\ SubSeq(s, Len(s) - Len(suffix) + 1, Len(s)) = suffix

\* str.startswith
StartsWith(s, prefix) ==
    /\ Len(s) >= Len(prefix)
    /\ SubSeq(s, 1, Len(prefix)) = prefix

\* str.rstrip(chars): drop every trailing character that is in chars
RECURSIVE RStrip(_, _)
RStrip(s, chars) ==
    IF s # <<>> /\ s[Len(s)] \in chars THEN RStrip(SubSeq(s, 1, Len(s) - 1), chars) ELSE s

\* str.lstrip(chars)
RECURSIVE LStrip(_, _)
LStrip(s, chars) ==
    IF s # <<>> /\ s[1] \in chars THEN LStrip(Tail(s), chars) ELSE s

Whitespace == {" ", "\n", "\t"}

\* str.strip(): whitespace removed at both ends
Strip(s) == RStrip(LStrip(s, Whitespace), Whitespace)

\* sep.join(parts)
RECURSIVE Join(_, _)
Join(parts, sep) ==
    IF parts = <<>> THEN <<>>
    ELSE IF Len(parts) = 1 THEN parts[1]
    ELSE parts[1] \o <<sep>> \o Join(Tail(parts), sep)

\* str.split(sep): the pieces between the separators (empty pieces kept)
RECURSIVE Split(_, _)
Split(s, sep) ==
    IF \A k \in 1..Len(s) : s[k] # sep THEN <<s>>
    ELSE LET k == CHOOSE n \in 1..Len(s) : s[n] = sep /\ \A m \in 1..(n - 1) : s[m] # sep
         IN  <<SubSeq(s, 1, k - 1)>> \o Split(SubSeq(s, k + 1, Len(s)), sep)

\* str.replace(old, new): every non-overlapping occurrence, left to right
RECURSIVE Replace(_, _, _)
Replace(s, old, new) ==
    IF Len(s) < Len(old) THEN s
    ELSE IF StartsWith(s, old) THEN new \o Replace(SubSeq(s, Len(old) + 1, Len(s)), old, new)
    ELSE <<s[1]>> \o Replace(Tail(s), old, new)

\* old in s
Contains(s, old) ==
    \E k \in 1..(Len(s) - Len(old) + 1) : SubSeq(s, k, k + Len(old) - 1) = old

(***************************************************************************)
(* fnmatch.fnmatch (POSIX: normcase is the identity), as fnmatch.translate *)
(* compiles it: "*" any run of characters ("/" included), "?" any one      *)
(* character, "[seq]" / "[!seq]" one character in / not in seq, a "["      *)
(* with no closing "]" a literal, anything else a literal; whole match.    *)
(***************************************************************************)
\* translate's scan for the "]" closing the "[" at position j; 0 when there is none
BracketEnd(pat, j) ==
    LET n  == Len(pat)
        k1 == IF j + 1 <= n /\ pat[j + 1] = "!" THEN j + 2 ELSE j + 1
        k2 == IF k1 <= n /\ pat[k1] = "]" THEN k1 + 1 ELSE k1
        closing == {k \in k2..n : pat[k] = "]"}
    IN  IF closing = {} THEN 0
        ELSE CHOOSE k \in closing : \A m \in closing : k <= m

\* one character against the bracket expression pat[j .. close]
BracketMatches(c, pat, j, close) ==
    LET stuff   == SubSeq(pat, j + 1, close - 1)
        negated == stuff[1] = "!"
        members == IF negated THEN {stuff[k] : k \in 2..Len(stuff)}
                   ELSE {stuff[k] : k \in 1..Len(stuff)}
    IN  IF negated THEN c \notin members ELSE c \in members

RECURSIVE MatchFrom(_, _, _, _)
MatchFrom(name, pat, i, j) ==
    IF j > Len(pat) THEN i > Len(name)
    ELSE IF pat[j] = "*" THEN
        \E k \in i..(Len(name) + 1) : MatchFrom(name, pat, k, j + 1)
    ELSE IF pat[j] = "?" THEN
        i <= Len(name) /\ MatchFrom(name, pat, i + 1, j + 1)
    ELSE IF pat[j] = "[" /\ BracketEnd(pat, j) # 0 THEN
        /\ i <= Len(name)
        /\ BracketMatches(name[i], pat, j, BracketEnd(pat, j))
        /\ MatchFrom(name, pat, i + 1, BracketEnd(pat, j) + 1)
    ELSE
        i <= Len(name) /\ name[i] = pat[j] /\ MatchFrom(name, pat, i + 1, j + 1)

fnmatch(name, pat) == MatchFrom(name, pat, 1, 1)

(***************************************************************************)
(* bundle.py: should_ignore                                                *)
(***************************************************************************)
\* os.path.relpath(path, base_path) of a path below base_path
relpath(segs) == Join(segs, SEP)

\* os.path.basename(path)
basename(segs) == segs[Len(segs)]

\* WholeMatch without the basename test of line 27
WholeMatch_NoBasename(segs, pattern) ==
    IF EndsWith(pattern, <<SEP>>)
    THEN \/ fnmatch(relpath(segs) \o <<SEP>>, pattern)
         \/ fnmatch(relpath(segs), RStrip(pattern, {SEP}))
    ELSE fnmatch(relpath(segs), pattern)

\* lines 22-28: the whole relative path against one pattern
WholeMatch(segs, pattern) ==
    IF EndsWith(pattern, <<SEP>>)
    THEN \/ fnmatch(relpath(segs) \o <<SEP>>, pattern)
         \/ fnmatch(relpath(segs), RStrip(pattern, {SEP}))
    ELSE \/ fnmatch(relpath(segs), pattern)
         \/ fnmatch(basename(segs), pattern)

\* PartialMatch with line 35 matching partial_path without the "/" appended
PartialMatch_NoSep(partial_path, pattern) == fnmatch(partial_path, pattern)

\* PartialMatch with the elif of line 37 lost
PartialMatch_DirOnly(partial_path, pattern) ==
    EndsWith(pattern, <<SEP>>) /\ fnmatch(partial_path \o <<SEP>>, pattern)

\* lines 30-38: one partial path against one pattern
PartialMatch(partial_path, pattern) ==
    IF EndsWith(pattern, <<SEP>>)
    THEN fnmatch(partial_path \o <<SEP>>, pattern)
    ELSE fnmatch(partial_path, pattern)

\* lines 22-28: the loop over the patterns for the whole relative path
WholeTest(segs, pats) == \E n \in 1..Len(pats) : WholeMatch(segs, pats[n])

\* lines 30-38: the loop over the partial paths parts[:i+1]
PrefixTest(segs, pats) ==
    LET relative_path == relpath(segs)
        parts         == Split(relative_path, SEP)
    IN  \E i \in 1..Len(parts) : \E n \in 1..Len(pats) :
            PartialMatch(Join(SubSeq(parts, 1, i), SEP), pats[n])

\* lines 19-40
should_ignore(segs, pats) == WholeTest(segs, pats) \/ PrefixTest(segs, pats)

(***************************************************************************)
(* Inputs of the ignore matcher                                            *)
(***************************************************************************)
MaxDepth == 3       \* deepest candidate path, in segments
MaxPatterns == 2    \* longest ignore list handed to should_ignore

\* file and directory names: plain ones and ones made of glob characters
IgnoreNames == { <<"a">>, <<"b">>, <<"[", "a">>, <<"[", "a", "]">> }

IgnorePaths == UNION {[1..d -> IgnoreNames] : d \in 1..MaxDepth}

\* directory patterns and general patterns, literal and with *, ? and [seq]
IgnorePatterns ==
    { <<"a">>, <<"a", "/">>, <<"[", "a">>, <<"[", "a", "]">>, <<"[", "a", "]", "/">>,
      <<"[", "!", "a", "]">>, <<"*", "b">>, <<"?", "/">>, <<"a", "/", "b", "/">>,
      <<"b", "/", "/">> }

IgnoreLists == UNION {[1..n -> IgnorePatterns] : n \in 0..MaxPatterns}

Idle == <<>>

InitIgnore ==
    /\ mode = "should_ignore"
    /\ pc = "whole"
    /\ path \in IgnorePaths
    /\ patterns \in IgnoreLists
    /\ result = "none"
    /\ packignore = [exists |-> FALSE, lines |-> <<>>]
    /\ tree = {}
    /\ output_filename = Idle
    /\ walk = <<>>
    /\ files = {}
    /\ archive = {}
    /\ gh_files = <<>>
    /\ idx = 0
    /\ attempted = <<>>
    /\ logged = <<>>
    /\ out_dir = {}

\* should_ignore lines 22-28: the loop over the patterns for the whole path
IgnoreWholeLoop ==
    /\ mode = "should_ignore" /\ pc = "whole"
    /\ IF WholeTest(path, patterns)
       THEN result' = TRUE /\ pc' = "done"
       ELSE result' = result /\ pc' = "prefix"
    /\ UNCHANGED <<mode, path, patterns, packignore, tree, output_filename, walk, files,
                   archive, gh_files, idx, attempted, logged, out_dir>>

\* should_ignore lines 30-40: the loop over the partial paths, then return False
IgnorePrefixLoop ==
    /\ mode = "should_ignore" /\ pc = "prefix"
    /\ result' = PrefixTest(path, patterns)
    /\ pc' = "done"
    /\ UNCHANGED <<mode, path, patterns, packignore, tree, output_filename, walk, files,
                   archive, gh_files, idx, attempted, logged, out_dir>>

NextIgnore == IgnoreWholeLoop \/ IgnorePrefixLoop

SpecIgnore == InitIgnore /\ [][NextIgnore]_vars

(***************************************************************************)
(* Claims about should_ignore (checked under SpecIgnore)                   *)
(***************************************************************************)
Returned == mode = "should_ignore" /\ pc = "done"

IsDirPattern(pattern) == EndsWith(pattern, <<SEP>>)

\* the p of a directory pattern "p/"
DirOf(pattern) == SubSeq(pattern, 1, Len(pattern) - 1)

\* the relative paths of the directories above the candidate path
Ancestors(segs) == {relpath(SubSeq(segs, 1, k)) : k \in 1..(Len(segs) - 1)}

\* the pattern holds a bracket expression: a "[" that translate finds closed
HasBracket(pattern) == \E j \in 1..Len(pattern) : pattern[j] = "[" /\ BracketEnd(pattern, j) # 0

\* C1 as stated: for every directory pattern "p/" of the list, a file anywhere
\* under the directory root/p (p read as a path) is ignored.
C1_AsStated ==
    Returned =>
        \A n \in 1..Len(patterns) :
            (IsDirPattern(patterns[n]) /\ DirOf(patterns[n]) \in Ancestors(path))
                => result = TRUE

\* C1 amended: for every directory pattern "p/" of the list, a file anywhere
\* under a directory whose root-relative path matches p as a glob is ignored.
C1_DirPatternIgnoresSubtree ==
    Returned =>
        \A n \in 1..Len(patterns) :
            (IsDirPattern(patterns[n])
                /\ \E d \in Ancestors(path) : fnmatch(d, DirOf(patterns[n])))
                => result = TRUE

\* C1 witness: a file two levels below a directory matched by a directory
\* pattern has been tested and found ignored.
C1_Witness ==
    /\ Returned /\ result = TRUE /\ Len(path) = 3 /\ Len(patterns) = 1
    /\ IsDirPattern(patterns[1])
    /\ fnmatch(path[1], DirOf(patterns[1]))

\* C2 as stated: for every pattern of the list without a trailing "/", a file
\* at any depth whose basename equals the pattern string is ignored.
C2_AsStated ==
    Returned =>
        \A n \in 1..Len(patterns) :
            (~IsDirPattern(patterns[n]) /\ basename(path) = patterns[n])
                => result = TRUE

\* C2 amended: for every pattern of the list without a trailing "/" and without
\* a bracket expression, a file at any depth whose basename equals the pattern
\* string is ignored.
C2_BasenameEqualIgnored ==
    Returned =>
        \A n \in 1..Len(patterns) :
            (~IsDirPattern(patterns[n]) /\ ~HasBracket(patterns[n])
                /\ basename(path) = patterns[n])
                => result = TRUE

\* C2 witness: a file below the first level, none of whose ancestors matches,
\* has a basename equal to the only pattern and is found ignored.
C2_Witness ==
    /\ Returned /\ result = TRUE /\ Len(path) = 3 /\ Len(patterns) = 1
    /\ ~IsDirPattern(patterns[1]) /\ basename(path) = patterns[1]
    /\ path[1] # patterns[1] /\ path[2] # patterns[1]

\* C10 as stated: should_ignore returns true whenever some ancestor directory of
\* the path is matched by the rule lines 22-28 apply to the whole path.
C10_AsStated ==
    Returned =>
        ((\E k \in 1..(Len(path) - 1) : \E n \in 1..Len(patterns) :
              WholeMatch(SubSeq(path, 1, k), patterns[n]))
            => result = TRUE)

\* C10 amended: should_ignore returns true whenever some prefix of the relative
\* path matches a pattern under the prefix rule: prefix plus "/" against a
\* directory pattern, the prefix itself against any other pattern.
C10_PrefixRule ==
    Returned =>
        ((\E k \in 1..Len(path) : \E n \in 1..Len(patterns) :
              IF IsDirPattern(patterns[n])
              THEN fnmatch(relpath(SubSeq(path, 1, k)) \o <<SEP>>, patterns[n])
              ELSE fnmatch(relpath(SubSeq(path, 1, k)), patterns[n]))
            => result = TRUE)

\* C10 witness: the whole-path loop found nothing and the prefix loop ignored
\* the path because of an ancestor directory.
C10_Witness ==
    /\ Returned /\ result = TRUE /\ Len(path) = 3
    /\ \A n \in 1..Len(patterns) : ~WholeMatch(path, patterns[n])
    /\ \E n \in 1..Len(patterns) : fnmatch(relpath(SubSeq(path, 1, 2)), patterns[n])


(***************************************************************************)
(* bundle.py: load_packignore_patterns, bundle_files, main                 *)
(***************************************************************************)
\* LoadLines with line 14, the strip, lost
RECURSIVE LoadLines_NoStrip(_)
LoadLines_NoStrip(lines) ==
    IF lines = <<>> THEN <<>>
    ELSE LET line == Head(lines)
         IN  IF line # <<>> /\ ~StartsWith(line, <<"#">>)
             THEN <<line>> \o LoadLines_NoStrip(Tail(lines))
             ELSE LoadLines_NoStrip(Tail(lines))

\* lines 13-16: the loop over the lines of the ignore-file
RECURSIVE LoadLines(_)
LoadLines(lines) ==
    IF lines = <<>> THEN <<>>
    ELSE LET line == Strip(Head(lines))
         IN  IF line # <<>> /\ ~StartsWith(line, <<"#">>)
             THEN <<line>> \o LoadLines(Tail(lines))
             ELSE LoadLines(Tail(lines))

\* lines 9-17
load_packignore_patterns(file) ==
    IF file.exists THEN LoadLines(file.lines) ELSE <<>>

\* os.walk: the sub-directories of directory d (the dirs of its triple)
SubDirs(d, tr) ==
    {SubSeq(f, 1, Len(d) + 1) : f \in {g \in tr : Len(g) > Len(d) + 1 /\ SubSeq(g, 1, Len(d)) = d}}

\* os.walk: the files directly in directory d (the files of its triple)
DirFiles(d, tr) == {f \in tr : Len(f) = Len(d) + 1 /\ SubSeq(f, 1, Len(d)) = d}

\* KeptDirs with the pruning of line 48 lost
KeptDirs_NoPrune(d, tr, pats) == SubDirs(d, tr)

\* line 48: dirs[:] keeps the sub-directories should_ignore does not match
KeptDirs(d, tr, pats) == {sub \in SubDirs(d, tr) : ~should_ignore(sub, pats)}

\* ShouldWrite without the comparison with output_filename
ShouldWrite_NoSelfTest(f, pats, out) == ~should_ignore(f, pats)

\* line 52: the test a file passes to be written
ShouldWrite(f, pats, out) == ~should_ignore(f, pats) /\ basename(f) # out

\* arcname taken as the file name alone
arcname_Basename(f) == basename(f)

\* line 53: arcname, the path relative to source_dir
arcname(f) == relpath(f)

\* every order in which os.scandir may list the members of a set
Orderings(S) ==
    {q \in [1..Cardinality(S) -> S] : \A m, n \in 1..Cardinality(S) : m # n => q[m] # q[n]}

MaxFiles == 3    \* most files in the bundled tree before the archive is created
MaxLines == 2    \* most lines in the ignore-file

A == <<"a">>     \* names of the bundled tree
S == <<"s">>
K == <<"k">>
Z == <<"z">>     \* the only name that is also an output filename

\* the files a bundled tree may hold
TreeUniverse ==
    { <<A>>, <<S, A>>, <<K, A>>, <<K, S, A>>, <<K, S, K, A>>, <<K, Z>> }

Trees == {tr \in SUBSET TreeUniverse : Cardinality(tr) <= MaxFiles}

\* the lines an ignore-file may hold: blank, comment, and pattern lines
PackignoreLines ==
    { <<>>, <<" ">>, <<"#", "s">>, <<" ", "#", "s">>,
      <<"s", "/">>, <<"s">>, <<" ", "s">>, <<"k", "/", "s", "/", " ">> }

\* no ignore-file at packignore_path
NoPackignore == [exists |-> FALSE, lines |-> <<>>]

PackignoreFiles ==
    {NoPackignore} \cup
    {[exists |-> TRUE, lines |-> l] : l \in UNION {[1..n -> PackignoreLines] : n \in 0..MaxLines}}

\* argparse --output: a bare file name, resolved against parent_dir = source_dir
OutputArgs == {Z}

InitBundle ==
    /\ mode = "bundle"
    /\ pc = "load"
    /\ path = <<>>
    /\ patterns = <<>>
    /\ result = "none"
    /\ packignore \in PackignoreFiles
    /\ tree \in Trees
    /\ output_filename \in OutputArgs
    /\ walk = <<>>
    /\ files = {}
    /\ archive = {}
    /\ gh_files = <<>>
    /\ idx = 0
    /\ attempted = <<>>
    /\ logged = <<>>
    /\ out_dir = {}

\* line 43
BundleLoad ==
    /\ mode = "bundle" /\ pc = "load"
    /\ patterns' = load_packignore_patterns(packignore)
    /\ pc' = "open"
    /\ UNCHANGED <<mode, path, result, packignore, tree, output_filename, walk, files,
                   archive, gh_files, idx, attempted, logged, out_dir>>

\* lines 46-47: ZipFile(output_zip, 'w') creates the archive file in source_dir
\* (main, lines 64-69), then os.walk starts at source_dir
BundleOpen ==
    /\ mode = "bundle" /\ pc = "open"
    /\ tree' = tree \cup {<<output_filename>>}
    /\ walk' = << <<>> >>
    /\ pc' = "walk"
    /\ UNCHANGED <<mode, path, patterns, result, packignore, output_filename, files,
                   archive, gh_files, idx, attempted, logged, out_dir>>

\* lines 47-48: os.walk yields the next directory, top-down and depth-first;
\* the pruned dirs are the ones it descends into afterwards
BundleEnterDir ==
    /\ mode = "bundle" /\ pc = "walk" /\ files = {} /\ walk # <<>>
    /\ \E order \in Orderings(KeptDirs(Head(walk), tree, patterns)) :
           walk' = order \o Tail(walk)
    /\ files' = DirFiles(Head(walk), tree)
    /\ path' = Head(walk)
    /\ UNCHANGED <<mode, pc, patterns, result, packignore, tree, output_filename,
                   archive, gh_files, idx, attempted, logged, out_dir>>

\* lines 50-54: one file of the directory
BundleFile ==
    /\ mode = "bundle" /\ pc = "walk"
    /\ \E f \in files :
        /\ files' = files \ {f}
        /\ archive' = IF ShouldWrite(f, patterns, output_filename)
                      THEN archive \cup {arcname(f)}
                      ELSE archive
    /\ UNCHANGED <<mode, pc, path, patterns, result, packignore, tree, output_filename,
                   walk, gh_files, idx, attempted, logged, out_dir>>

\* the walk is exhausted: the with block closes the archive, main prints (line 70)
BundleDone ==
    /\ mode = "bundle" /\ pc = "walk" /\ files = {} /\ walk = <<>>
    /\ pc' = "done"
    /\ UNCHANGED <<mode, path, patterns, result, packignore, tree, output_filename,
                   walk, files, archive, gh_files, idx, attempted, logged, out_dir>>

NextBundle == BundleLoad \/ BundleOpen \/ BundleEnterDir \/ BundleFile \/ BundleDone

SpecBundle == InitBundle /\ [][NextBundle]_vars


(***************************************************************************)
(* Claims about bundle_files and load_packignore_patterns (SpecBundle)     *)
(***************************************************************************)
Bundled == mode = "bundle" /\ pc = "done"

\* the directories of the tree, as paths below the root
TreeDirs == UNION {{SubSeq(f, 1, k) : k \in 1..(Len(f) - 1)} : f \in tree}

\* the files of the tree beneath directory d, at any depth
Beneath(d) == {f \in tree : Len(f) > Len(d) /\ SubSeq(f, 1, Len(d)) = d}

\* a pattern matches a directory name: the matcher's rule for that kind of
\* pattern (lines 23-28) applied to the name alone
MatchesName(pattern, name) == WholeMatch(<<name>>, pattern)

\* C3 as stated: after bundle_files, if some pattern matches the name of a
\* directory D at any depth, no file beneath D is an entry of the archive.
C3_AsStated ==
    Bundled =>
        \A d \in TreeDirs : \A n \in 1..Len(patterns) :
            MatchesName(patterns[n], basename(d))
                => \A f \in Beneath(d) : arcname(f) \notin archive

\* C3 amended: after bundle_files, if some pattern without a trailing "/" matches
\* the name of a directory D at any depth, or some pattern of either kind matches
\* D's root-relative path, no file beneath D is an entry of the archive.
C3_MatchedDirExcludesSubtree ==
    Bundled =>
        \A d \in TreeDirs : \A n \in 1..Len(patterns) :
            WholeMatch(d, patterns[n])
                => \A f \in Beneath(d) : arcname(f) \notin archive

\* C3 witness: the pattern "s" matched only the nested directory k/s; the file
\* two levels beneath it was left out while its cousin k/a was written.
C3_Witness ==
    /\ Bundled /\ patterns = <<S>>
    /\ {<<K, S, K, A>>, <<K, A>>} \subseteq tree
    /\ arcname(<<K, A>>) \in archive
    /\ arcname(<<K, S, K, A>>) \notin archive

\* C4: at every point of bundle_files and after it, no entry of the archive has
\* a relative path equal to the output archive's filename.
C4_NoSelfEntry == mode = "bundle" => output_filename \notin archive

\* C4 witness: the run is over, the archive file lay in the bundled root among
\* other files, nothing was ignored and the other files were written.
C4_Witness ==
    /\ Bundled /\ patterns = <<>> /\ <<output_filename>> \in tree
    /\ Cardinality(archive) >= 2

\* a line that load_packignore_patterns drops: blank, or a comment
IsBlankOrComment(line) == Strip(line) = <<>> \/ StartsWith(Strip(line), <<"#">>)

\* C5 as stated: with an ignore-file of only comment and blank lines, the
\* archive holds every file under the root except the output archive itself.
C5_AsStated ==
    (Bundled /\ packignore.exists
        /\ \A n \in 1..Len(packignore.lines) : IsBlankOrComment(packignore.lines[n]))
        => archive = {relpath(f) : f \in tree \ {<<output_filename>>}}

\* the n-th smallest member of a set of indices
Nth(I, n) == CHOOSE i \in I : Cardinality({j \in I : j <= i}) = n

\* patterns holds, in order, keep(line) for the lines whose index is in I
IsSelection(I, stripped) ==
    /\ Len(patterns) = Cardinality(I)
    /\ \A n \in 1..Len(patterns) :
           patterns[n] = IF stripped THEN Strip(packignore.lines[Nth(I, n)])
                         ELSE packignore.lines[Nth(I, n)]

\* the archive bundle_files must produce from a tree, an ignore list and an
\* output filename: the files neither ignored themselves, nor below an ignored
\* directory, nor named like the output archive
ArchiveFor(tr, pats, out) ==
    {relpath(f) : f \in {g \in tr :
        /\ \A k \in 1..(Len(g) - 1) : ~should_ignore(SubSeq(g, 1, k), pats)
        /\ ~should_ignore(g, pats)
        /\ basename(g) # out}}

\* C6 as stated: the loaded list is, in file order, exactly the lines that are
\* non-empty and do not start with "#"; with no ignore-file it is empty, and the
\* run produces the archive of an empty pattern list.
C6_AsStated ==
    /\ (mode = "bundle" /\ pc # "load" /\ packignore.exists) =>
           IsSelection({i \in 1..Len(packignore.lines) :
                           /\ packignore.lines[i] # <<>>
                           /\ ~StartsWith(packignore.lines[i], <<"#">>)}, FALSE)
    /\ (mode = "bundle" /\ pc # "load" /\ ~packignore.exists) => patterns = <<>>
    /\ (Bundled /\ ~packignore.exists) => archive = ArchiveFor(tree, <<>>, output_filename)

\* C6 amended: the loaded list is, in file order, the whitespace-stripped form of
\* each line whose stripped form is non-empty and does not start with "#"; with
\* no ignore-file it is empty, and the run produces the archive of an empty
\* pattern list.
C6_LoadedPatterns ==
    /\ (mode = "bundle" /\ pc # "load" /\ packignore.exists) =>
           IsSelection({i \in 1..Len(packignore.lines) :
                           ~IsBlankOrComment(packignore.lines[i])}, TRUE)
    /\ (mode = "bundle" /\ pc # "load" /\ ~packignore.exists) => patterns = <<>>
    /\ (Bundled /\ ~packignore.exists) => archive = ArchiveFor(tree, <<>>, output_filename)

\* C6 witness: a two-line ignore-file, a comment then a pattern line with
\* surrounding whitespace, has been loaded into a one-pattern list.
C6_Witness ==
    /\ mode = "bundle" /\ pc = "open" /\ packignore.exists
    /\ Len(packignore.lines) = 2 /\ Len(patterns) = 1
    /\ IsBlankOrComment(packignore.lines[1])
    /\ packignore.lines[2] # Strip(packignore.lines[2])

\* C7: after bundle_files, the archive keys are exactly the root-relative paths
\* of the files that are not ignored, have no ignored directory above them and
\* are not named like the output archive.
C7_ArchiveKeys == Bundled => archive = ArchiveFor(tree, patterns, output_filename)

\* C7 witness: the end-to-end example, root {a, s/a, k/a} with the ignore line
\* "s/", gives exactly the keys a and k/a.
C7_Witness ==
    /\ Bundled /\ patterns = << <<"s", "/">> >>
    /\ tree = {<<A>>, <<S, A>>, <<K, A>>, <<output_filename>>}
    /\ archive = {<<"a">>, <<"k", "/", "a">>}


(***************************************************************************)
(* generate.py                                                             *)
(***************************************************************************)
OAK    == <<"o", "a", "k">>
FRAME  == <<"_", "f", "r", "a", "m", "e">>
PLANKS == <<"_", "p", "l", "a", "n", "k", "s">>
LOG    == <<"_", "l", "o", "g">>
JSON   == <<".", "j", "s", "o", "n">>
TXT    == <<".", "t", "x", "t">>

\* lines 70-91
extract_base_name(filename) ==
    LET base_name == Replace(filename, JSON, <<>>)
    IN  IF Contains(base_name, FRAME) THEN Replace(base_name, FRAME, PLANKS)
        ELSE IF EndsWith(base_name, LOG) THEN base_name
        ELSE IF ~EndsWith(base_name, PLANKS) THEN base_name \o PLANKS
        ELSE base_name

\* lines 127-128: the name of the output document of an input file
OutputName(filename) == extract_base_name(filename) \o JSON

\* line 44: the entries of the listing that get_github_files keeps
RECURSIVE JsonFiles(_)
JsonFiles(listing) ==
    IF listing = <<>> THEN <<>>
    ELSE IF EndsWith(Head(listing).name, JSON) /\ Head(listing).type = "file"
         THEN <<Head(listing)>> \o JsonFiles(Tail(listing))
         ELSE JsonFiles(Tail(listing))

\* clean_output_directory with the rmtree of line 26 lost
clean_output_directory_Keep(dir) == dir

\* lines 21-29: rmtree then mkdir leave the output directory empty
clean_output_directory(dir) == {}

\* What handling one file comes to (process_chisel_file, lines 105-142, with
\* download_file_content, lines 54-67):
\*   request_error  requests.get / raise_for_status raised; None returned (62-64)
\*   json_error     response.json() raised; None returned (65-67)
\*   falsy          the document is empty ({} or []): "if not content" (114-116)
\*   not_dict       the document is a non-empty list: content.get raises
\*                  AttributeError, which leaves process_chisel_file (119)
\*   no_variants    no "variants" key, or an empty list (120-122)
\*   write_error    open() raised IOError, caught at line 141; no file
\*   written        the recipe is written (136-139)
Outcomes ==
    {"request_error", "json_error", "falsy", "not_dict", "no_variants", "write_error", "written"}

\* the outcomes in which the file was downloaded and parsed
Downloaded == Outcomes \ {"request_error", "json_error"}

\* the exception that leaves process_chisel_file, "none" when it returns
Escapes(outcome) == IF outcome = "not_dict" THEN "AttributeError" ELSE "none"

\* main catching only the I/O errors
CaughtByMain_IOOnly(exc) == exc \in {"OSError"}

\* line 165: except Exception catches every exception process_chisel_file raises
CaughtByMain(exc) == exc \in {"AttributeError", "KeyError", "TypeError", "OSError"}

MaxListing == 2    \* most entries in the listing the API returns

\* entries of the remote listing (name, type)
ListingEntries ==
    { [name |-> OAK \o FRAME \o JSON, type |-> "file"],
      [name |-> OAK \o JSON, type |-> "file"],
      [name |-> OAK \o LOG \o JSON, type |-> "file"],
      [name |-> OAK \o PLANKS \o JSON, type |-> "file"],
      [name |-> OAK \o TXT, type |-> "file"],
      [name |-> OAK \o JSON, type |-> "dir"] }

\* a directory listing: names are unique
Listings ==
    {l \in UNION {[1..n -> ListingEntries] : n \in 0..MaxListing} :
        \A m, n \in 1..Len(l) : m # n => l[m].name # l[n].name}

\* what a previous run may have left in the output directory
StaleOutputs == {{}, {OAK \o JSON}}

InitGen ==
    /\ mode = "generate"
    /\ pc = "clean"
    /\ path = <<>>
    /\ patterns = <<>>
    /\ result = "none"
    /\ packignore = [exists |-> FALSE, lines |-> <<>>]
    /\ tree = {}
    /\ output_filename = Idle
    /\ walk = <<>>
    /\ files = {}
    /\ archive = {}
    /\ gh_files = <<>>
    /\ idx = 0
    /\ attempted = <<>>
    /\ logged = <<>>
    /\ out_dir \in StaleOutputs

\* main line 151
GenClean ==
    /\ mode = "generate" /\ pc = "clean"
    /\ out_dir' = clean_output_directory(out_dir)
    /\ pc' = "fetch"
    /\ UNCHANGED <<mode, path, patterns, result, packignore, tree, output_filename, walk,
                   files, archive, gh_files, idx, attempted, logged>>

\* main lines 154-157 with get_github_files (33-51): a request error gives [],
\* and an empty list ends the run before the loop
GenFetch ==
    /\ mode = "generate" /\ pc = "fetch"
    /\ \/ gh_files' = <<>>
       \/ \E listing \in Listings : gh_files' = JsonFiles(listing)
    /\ pc' = IF gh_files' = <<>> THEN "exit" ELSE "loop"
    /\ idx' = 1
    /\ UNCHANGED <<mode, path, patterns, result, packignore, tree, output_filename, walk,
                   files, archive, attempted, logged, out_dir>>

\* main lines 162-167: one iteration of the loop
GenProcess ==
    /\ mode = "generate" /\ pc = "loop" /\ idx <= Len(gh_files)
    /\ \E outcome \in Outcomes :
        LET filename == gh_files[idx].name
            exc      == Escapes(outcome)
        IN  /\ attempted' = Append(attempted, [name |-> filename, outcome |-> outcome])
            /\ out_dir' = IF outcome = "written" THEN out_dir \cup {OutputName(filename)}
                          ELSE out_dir
            /\ IF exc = "none"
               THEN logged' = logged /\ idx' = idx + 1 /\ pc' = pc
               ELSE IF CaughtByMain(exc)
               THEN logged' = Append(logged, filename) /\ idx' = idx + 1 /\ pc' = pc
               ELSE logged' = logged /\ idx' = idx /\ pc' = "crashed"
    /\ UNCHANGED <<mode, path, patterns, result, packignore, tree, output_filename, walk,
                   files, archive, gh_files>>

\* main lines 169-171: the loop is over, the completion message is printed
GenFinish ==
    /\ mode = "generate" /\ pc = "loop" /\ idx > Len(gh_files)
    /\ pc' = "done"
    /\ UNCHANGED <<mode, path, patterns, result, packignore, tree, output_filename, walk,
                   files, archive, gh_files, idx, attempted, logged, out_dir>>

NextGen == GenClean \/ GenFetch \/ GenProcess \/ GenFinish

SpecGen == InitGen /\ [][NextGen]_vars

\* the script is one sequential thread: a step that can be taken is taken
SpecGenFair == SpecGen /\ WF_vars(NextGen)

(***************************************************************************)
(* Claims about the generator                                              *)
(***************************************************************************)
\* the names of the first n listed files, in list order
ListedNames(n) == [k \in 1..n |-> gh_files[k].name]

AttemptedNames == [k \in 1..Len(attempted) |-> attempted[k].name]

\* C8: once the main loop runs, a failure on one file never stops the run: the
\* files attempted are always the first files of the list in list order, a
\* failure that left process_chisel_file was logged, and the run reaches its
\* completion message with every listed file attempted.
C8_LoopToleratesFailures ==
    /\ [](mode = "generate" =>
            /\ Len(attempted) <= Len(gh_files)
            /\ AttemptedNames = ListedNames(Len(attempted))
            /\ pc # "crashed")
    /\ ((mode = "generate" /\ pc = "loop")
            ~> (pc = "done" /\ AttemptedNames = ListedNames(Len(gh_files))))

\* C8 witness: the run completed although the first of two files raised in
\* process_chisel_file and the second failed to download.
C8_Witness ==
    /\ mode = "generate" /\ pc = "done" /\ Len(attempted) = 2
    /\ attempted[1].outcome = "not_dict" /\ logged = <<attempted[1].name>>
    /\ attempted[2].outcome = "request_error"

AllDownloaded == \A k \in 1..Len(attempted) : attempted[k].outcome \in Downloaded

WrittenNames == {attempted[k].name : k \in {j \in 1..Len(attempted) : attempted[j].outcome = "written"}}

====
